---- MODULE Spec2Model ----
(***************************************************************************)
(* DLive: a pet-care reminder PWA.  The model covers the persistence layer *)
(* (StorageService over IndexedDB and localStorage), the completion        *)
(* scheduler embedded in completeTask, and the handlers of DashboardView,  *)
(* PetsView, SettingsView and App that call it.                           *)
(*                                                                         *)
(* Time is counted in ticks since January 1st, 00:00 UTC, of EpochYear;     *)
(* TicksPerDay ticks make one day.  A JS number is a record [nan, v]; a JS *)
(* Date is its time value (a JS number); an ISO string is the record of    *)
(* its UTC fields.                                                         *)
(***************************************************************************)
EXTENDS Integers, Sequences, FiniteSets, Bags, TLC

\* ------------------------------------------------------------------ bounds

\* clock readings (Date.now()) per calendar day
TicksPerDay == 2
\* offset of the local time zone from UTC, in ticks
LocalTZA == 1
\* how many ticks the clock advances in one run of Spec
MaxTicks == 1
\* handler invocations in flight at the same time
MaxProcs == 2
\* injected storage faults per run
MaxFaults == 1
\* handler invocations per run
MaxCalls == 3
\* days the clock advances in one run of SpecDate
MaxDays == 6
\* the year the clock counts from: tick 0 is January 1st, 00:00 UTC, of it
EpochYear == 2023

\* -------------------------------------------------- JS numbers and dates

NaN == [nan |-> TRUE, v |-> 0]
Num(i) == [nan |-> FALSE, v |-> i]
\* x + y on JS numbers
NumAdd(x, y) == IF x.nan \/ y.nan THEN NaN ELSE Num(x.v + y.v)

InLeapYear(y) == (y % 4 = 0 /\ y % 100 # 0) \/ y % 400 = 0
DaysInYear(y) == IF InLeapYear(y) THEN 366 ELSE 365
\* m is a JS month, 0..11
DaysInMonth(y, m) ==
    IF m = 1 THEN (IF InLeapYear(y) THEN 29 ELSE 28)
    ELSE IF m \in {3, 5, 8, 10} THEN 30 ELSE 31

RECURSIVE DayFromYear(_)
\* day number of January 1st of year y (y >= EpochYear)
DayFromYear(y) == IF y <= EpochYear THEN 0 ELSE DayFromYear(y - 1) + DaysInYear(y - 1)

RECURSIVE YearFromDayAt(_, _)
YearFromDayAt(day, y) ==
    IF day < DayFromYear(y + 1) THEN y ELSE YearFromDayAt(day, y + 1)
YearFromDay(day) == YearFromDayAt(day, EpochYear)

RECURSIVE DaysBeforeMonth(_, _)
DaysBeforeMonth(y, m) == IF m = 0 THEN 0 ELSE DaysBeforeMonth(y, m - 1) + DaysInMonth(y, m - 1)

RECURSIVE MonthFromDayAt(_, _, _)
MonthFromDayAt(dayInYear, y, m) ==
    IF dayInYear < DaysBeforeMonth(y, m + 1) THEN m ELSE MonthFromDayAt(dayInYear, y, m + 1)
MonthFromDay(day) ==
    LET y == YearFromDay(day) IN MonthFromDayAt(day - DayFromYear(y), y, 0)

DateFromDay(day) ==
    LET y == YearFromDay(day)
    IN  day - DayFromYear(y) - DaysBeforeMonth(y, MonthFromDay(day)) + 1

\* ECMAScript MakeDay(year, month, date): the day of the first of the month
\* plus date - 1, whatever date is (0, negative, or beyond the month's end)
MakeDay(y, m, dt) == DayFromYear(y) + DaysBeforeMonth(y, m) + dt - 1
\* ECMAScript MakeDate(day, time)
MakeDate(day, time) == day * TicksPerDay + time

Day(t) == t \div TicksPerDay
TimeWithinDay(t) == t % TicksPerDay
LocalTime(t) == t + LocalTZA
UTC(t) == t - LocalTZA

\* new Date(): the Date object of clock reading t
DateOf(t) == Num(t)

\* Date.prototype.getDate: the local day of the month
getDate(date) == IF date.nan THEN NaN ELSE Num(DateFromDay(Day(LocalTime(date.v))))

\* setDate that stops at the last day of the month instead of rolling over
setDateClamped(date, dt) ==
    IF date.nan \/ dt.nan THEN NaN
    ELSE LET lt == LocalTime(date.v)
             y == YearFromDay(Day(lt))
             m == MonthFromDay(Day(lt))
             last == DaysInMonth(y, m)
         IN  Num(UTC(MakeDate(MakeDay(y, m, IF dt.v > last THEN last ELSE dt.v),
                              TimeWithinDay(lt))))

\* Date.prototype.setDate(dt): the Date after the call
setDate(date, dt) ==
    IF date.nan \/ dt.nan THEN NaN
    ELSE LET lt == LocalTime(date.v)
             newDay == MakeDay(YearFromDay(Day(lt)), MonthFromDay(Day(lt)), dt.v)
         IN  Num(UTC(MakeDate(newDay, TimeWithinDay(lt))))

\* Date.prototype.toISOString: the UTC fields; throws RangeError on an
\* Invalid Date (callers test date.nan first)
toISOString(date) ==
    [y |-> YearFromDay(Day(date.v)), m |-> MonthFromDay(Day(date.v)),
     d |-> DateFromDay(Day(date.v)), tod |-> TimeWithinDay(date.v)]

\* new Date(isoString): the Date parsed from an ISO string
ParseISO(iso) == Num(MakeDate(MakeDay(iso.y, iso.m, iso.d), iso.tod))

\* Date.prototype.toDateString: the local calendar date
toDateString(date) ==
    LET ld == Day(LocalTime(date.v))
    IN  [y |-> YearFromDay(ld), m |-> MonthFromDay(ld), d |-> DateFromDay(ld)]

\* ------------------------------------------------------------ the records

NULL == [null |-> TRUE]
\* localStorage.getItem of a key that is not stored
NoItem == "null"
\* an id that names nothing
NoId == 0 - 1
NoRec == [id |-> NoId]

TaskType == {"pill", "nails", "ears", "other"}

\* what the user can type in the forms
PetNameInputs == {"Rex", "Bim"}
BreedInputs == {"", "husky"}
\* the files the user can choose for the picture of a pet
FileInputs == {1}
TaskTitleInputs == {"walk"}
TaskTypeInputs == {"pill"}
\* the frequency field after parseInt: an integer or NaN
FreqInputs == {NaN, Num(30)}
\* the filter buttons of DashboardView
FilterInputs == {"today", "all"}

\* ------------------------------------------------ IndexedDB object stores

\* IDBObjectStore.put on a store with keyPath 'id'
put(store, r) == {x \in store : x.id # r.id} \cup {r}
\* IDBObjectStore.delete(key)
delete(store, key) == {x \in store : x.id # key}
\* IDBObjectStore.get(key): the record, or NULL (undefined)
get(store, key) == IF \E x \in store : x.id = key THEN CHOOSE x \in store : x.id = key ELSE NULL
\* IDBObjectStore.getAll()
getAll(store) == store
\* IDBObjectStore.clear()
clear(store) == {}
Ids(store) == {x.id : x \in store}

\* a cursor that does not continue after a delete
RECURSIVE DeletePetCursorStops(_, _, _)
DeletePetCursorStops(store, ahead, id) ==
    IF ahead = {} THEN store
    ELSE LET key == CHOOSE k \in ahead : \A j \in ahead : k <= j
             task == get(store, key)
         IN  IF task.petId = id THEN delete(store, key)
             ELSE DeletePetCursorStops(store, ahead \ {key}, id)

\* the cursor of deletePet: walks the task store in key order from the keys
\* still ahead of it, deleting the tasks of pet id
RECURSIVE DeletePetCursor(_, _, _)
DeletePetCursor(store, ahead, id) ==
    IF ahead = {} THEN store
    ELSE LET key == CHOOSE k \in ahead : \A j \in ahead : k <= j
             task == get(store, key)
         IN  DeletePetCursor(IF task.petId = id THEN delete(store, key) ELSE store,
                             ahead \ {key}, id)

\* the transaction of deletePet: the stores [pets, tasks] after it commits
DeletePetTx(ps, ts, id) == [pets |-> delete(ps, id), tasks |-> DeletePetCursor(ts, Ids(ts), id)]

\* a completion that reschedules the task without recording when it was done
CompleteTaskTxKeepsLastDone(ts, taskId, t) ==
    LET task == get(ts, taskId) IN
    IF task = NULL THEN [tasks |-> ts, threw |-> FALSE]
    ELSE LET nowD == DateOf(t)
             nextDue == setDate(nowD, NumAdd(getDate(nowD), task.frequencyDays))
         IN  IF nextDue.nan THEN [tasks |-> ts, threw |-> TRUE]
             ELSE [tasks |-> put(ts, [task EXCEPT !.lastDoneDate = task.lastDoneDate,
                                                  !.nextDueDate = toISOString(nextDue)]),
                   threw |-> FALSE]

\* completeTask without the test of the get request's result: it stores a
\* record under the id whether or not one was read
CompleteTaskTxUpsert(ts, taskId, t) ==
    LET task == get(ts, taskId) IN
    [tasks |-> put(ts, [id |-> taskId,
                        petId |-> IF task = NULL THEN taskId ELSE task.petId,
                        frequencyDays |-> IF task = NULL THEN Num(1) ELSE task.frequencyDays,
                        lastDoneDate |-> toISOString(DateOf(t)),
                        nextDueDate |-> toISOString(DateOf(t)),
                        title |-> IF task = NULL THEN "" ELSE task.title,
                        type |-> IF task = NULL THEN "" ELSE task.type]),
     threw |-> FALSE]

\* the success handler of completeTask's get request at clock reading t:
\* [tasks, threw]; toISOString of an Invalid Date throws a RangeError out of
\* the handler, which aborts the transaction
CompleteTaskTx(ts, taskId, t) ==
    LET task == get(ts, taskId) IN
    IF task = NULL THEN [tasks |-> ts, threw |-> FALSE]
    ELSE LET nowD == DateOf(t)
             nextDue == setDate(nowD, NumAdd(getDate(nowD), task.frequencyDays))
         IN  IF nextDue.nan THEN [tasks |-> ts, threw |-> TRUE]
             ELSE [tasks |-> put(ts, [task EXCEPT !.lastDoneDate = toISOString(nowD),
                                                  !.nextDueDate = toISOString(nextDue)]),
                   threw |-> FALSE]

\* ------------------------------------------------------------ localStorage

getTheme(store) == IF store.theme # NoItem THEN store.theme ELSE "light"
saveTheme(store, theme) == [store EXCEPT !.theme = theme]
getNotificationSettings(store) == store.notifications = "true"
saveNotificationSettings(store, enabled) ==
    [store EXCEPT !.notifications = IF enabled THEN "true" ELSE "false"]
\* the two removeItem calls of clearAllData
removePreferences(store) == [theme |-> NoItem, notifications |-> NoItem]

\* ------------------------------------------------------------------ views

\* a filter that compares the instants only
filteredTasksInstant(ts, f, t) ==
    {task \in ts : f = "all" \/ ParseISO(task.nextDueDate).v <= DateOf(t).v}

\* DashboardView.filteredTasks at clock reading t
filteredTasks(ts, f, t) ==
    {task \in ts :
        \/ f = "all"
        \/ LET dueDate == ParseISO(task.nextDueDate)
               today == DateOf(t)
           IN  dueDate.v <= today.v \/ toDateString(dueDate) = toDateString(today)}

\* canvas.toDataURL('image/jpeg', 0.7) of compressImage on the image of file
toDataURL(file) == [scheme |-> "data:image/jpeg", ref |-> file]
\* the picsum.photos address that handleAddPet builds at clock reading t
picsum(t) == [scheme |-> "https", ref |-> t]
\* the record handleAddPet builds at clock reading t from the fields of the form
NewPet(t, name, breed, image) ==
    [id |-> t, name |-> name, breed |-> breed,
     imageUrl |-> IF image = NULL THEN picsum(t) ELSE image]
\* the record handleAddTask builds at clock reading t
NewTask(t, petId, title, type, freq) ==
    [id |-> t, petId |-> petId, frequencyDays |-> freq, lastDoneDate |-> NULL,
     nextDueDate |-> toISOString(DateOf(t)), title |-> title, type |-> type]

\* ------------------------------------------------------------------ state

VARIABLES
    pets,       \* object store 'pets' of DLiveDB: the committed records
    tasks,      \* object store 'tasks' of DLiveDB: the committed records
    ls,         \* localStorage: [theme, notifications]
    now,        \* the clock: Date.now()
    procs,      \* the handler invocations in flight, in the order of their calls
    faults,     \* storage faults injected so far
    calls,      \* handler invocations started so far
    theme,                  \* App: the theme state
    notificationsEnabled,   \* SettingsView: the notificationsEnabled state
    currentView,    \* App: the currentView state
    viewPets,   \* the pets state of the mounted DashboardView or PetsView
    viewTasks,  \* the tasks state of the mounted DashboardView or PetsView
    tabPets,    \* the pets state of PetsView in a second tab of the app
    tabTasks,   \* the tasks state of PetsView in a second tab of the app
    loading,    \* the loading state of the mounted DashboardView or PetsView
    showAddPet,     \* PetsView: the add-pet form is open
    showAddTask,    \* PetsView: the pet whose add-task form is open, or NoId (null)
    newPetImage,    \* PetsView: the picture chosen in the add-pet form, or NULL
    ev,         \* the StorageService call that settled in the last step, if any
    completed,  \* ids of the stored tasks a completeTask has rewritten
    apiKey,     \* GeminiService: process.env.API_KEY || ''
    asks,       \* bag of the askAssistant calls that await generateContent
    requests,   \* generateContent requests issued so far
    said,       \* the askAssistant call that returned in the last step, if any
    worker,     \* the service worker's lifecycle state
    cacheNames, \* CacheStorage: the names of the caches, in creation order
    cached,     \* CacheStorage: the entries of the caches
    fetches,    \* bag of the fetch events the worker is answering
    network,    \* network requests the fetch handler has made so far
    swEv        \* the step of the worker's handlers taken last, if any

tabVars == <<tabPets, tabTasks>>
listVars == <<viewPets, viewTasks, tabVars>>
formVars == <<loading, showAddPet, showAddTask, newPetImage>>
viewVars == <<currentView, listVars, formVars>>
appVars == <<pets, tasks, ls, now, procs, faults, calls, theme, notificationsEnabled,
             viewVars, ev, completed>>
assistantVars == <<apiKey, asks, requests, said>>
workerVars == <<worker, cacheNames, cached, fetches, network, swEv>>
\* what the views and the calls of StorageService leave alone
sideVars == <<assistantVars, workerVars>>

vars == <<appVars, sideVars>>

storeVars == <<pets, tasks, completed>>
prefVars == <<ls, theme, notificationsEnabled>>

\* the pets the mounted view renders, and the tasks DashboardView renders
\* under the filter 'all'
listedPets == Ids(viewPets)
listedTasks == Ids(viewTasks)
\* the tasks PetsView renders in the card of pet
petTasks(ts, pet) == {t \in ts : t.petId = pet.id}
\* what PetsView renders: the add-pet form when it is open, else the add-task
\* form when it is open, else the loading screen until the first loadData
\* resolved, else the list of the pets with its buttons
PetsView ==
    IF currentView # "pets" THEN "none"
    ELSE IF showAddPet THEN "addPet"
    ELSE IF showAddTask # NoId THEN "addTask"
    ELSE IF loading THEN "loading"
    ELSE "list"
\* a view as it mounts: no form is open, no picture is chosen
FormIdle == showAddPet = FALSE /\ showAddTask = NoId /\ newPetImage = NULL

\* the clock when the page loads: 00:00 UTC on day 364 of EpochYear
ClockStart == 364 * TicksPerDay

NoEv == [id |-> NoId, op |-> "none", rec |-> NoRec, out |-> "none", fault |-> "none",
         prePets |-> {}, preTasks |-> {}, res |-> {}]
\* the call op(id, rec) settled with out under fault, from the stores as they are
Ev(op, id, rec, out, fault, res) ==
    [id |-> id, op |-> op, rec |-> rec, out |-> out, fault |-> fault,
     prePets |-> pets, preTasks |-> tasks, res |-> res]

\* a handler invocation: h the handler, id / rec its argument, pc where it
\* waits ("svc": its StorageService call, "tx": the transaction of
\* clearAllData, "commit": the end of the transaction of completeTask, whose
\* get request succeeded at clock reading rec.at, "load": loadData, "reload":
\* window.location.reload,
\* "permission": Notification.requestPermission, "compress": compressImage,
\* "hung": a promise that never settles), which reads of loadData are in, the
\* records the first of them resolved to, owner, the component whose state
\* its setters reach ("view" the mounted view, "tab" PetsView in the second
\* tab, "none" a component of this page that has unmounted or whose
\* Promise.all has rejected, "tab none" a Promise.all of the second tab that
\* has rejected), and opened, those of its pending StorageService calls whose
\* open request has succeeded.  The effect that runs when DashboardView or
\* PetsView mounts is the handler of that name
Proc(h, id, rec, pc) ==
    [id |-> id, rec |-> rec, h |-> h, pc |-> pc, gotTasks |-> FALSE, gotPets |-> FALSE,
     first |-> {}, owner |-> "view", opened |-> {}]

Remove(s, i) == SubSeq(s, 1, i - 1) \o SubSeq(s, i + 1, Len(s))
Waiting(pc) == {i \in DOMAIN procs : procs[i].pc = pc}
CanStart == Len(procs) < MaxProcs /\ calls < MaxCalls
\* the component that started the invocations has unmounted: React drops
\* what they set on it
Detach(s) == [i \in DOMAIN s |-> IF s[i].owner = "view" THEN [s[i] EXCEPT !.owner = "none"]
                                 ELSE s[i]]

\* the object stores in the scope of the transaction of handler h's call
Scope(h) ==
    IF h = "handleAddPet" THEN {"pets"}
    ELSE IF h \in {"handleAddTask", "handleDeleteTask", "handleComplete"} THEN {"tasks"}
    ELSE IF h \in {"handleDeletePet", "handleClearData"} THEN {"pets", "tasks"}
    ELSE {}
\* the invocation q has called a write of StorageService that has not ended
Writes(q) == q.pc \in {"svc", "tx", "commit"}
\* the stores on which the calls q has made have a transaction still to run
Pending(q) ==
    IF Writes(q) THEN Scope(q.h)
    ELSE IF q.pc = "load"
    THEN (IF q.gotTasks THEN {} ELSE {"tasks"}) \cup (IF q.gotPets THEN {} ELSE {"pets"})
    ELSE {}
\* IndexedDB serves the open requests of one database in the order they were
\* made, so transactions are created in the order of the calls; a transaction
\* starts once no transaction created before it is pending on one of its
\* stores, read-only transactions not waiting for each other
Ready(i, stores, write) ==
    \A j \in 1..(i - 1) :
        \/ Pending(procs[j]) \cap stores = {}
        \/ ~write /\ ~Writes(procs[j])

FaultKinds == {"none", "open", "tx", "req", "commit"}
MayFault(f) == f = "none" \/ faults < MaxFaults
Count(f) == IF f = "none" THEN faults ELSE faults + 1
\* the fault lets the call create its transaction
Creates(f) == f \in {"none", "req", "commit"}

\* the read that loadData of handler h calls first: DashboardView calls
\* Promise.all([getTasks(), getPets()]), PetsView Promise.all([getPets(),
\* getTasks()])
FirstRead(h) == IF h \in {"DashboardView", "handleComplete"} THEN "tasks" ELSE "pets"
\* the StorageService calls of q whose open request is not known to be served
Unopened(q) ==
    IF q.pc = "svc" THEN {"svc"} \ q.opened
    ELSE IF q.pc = "load" THEN Pending(q) \ q.opened
    ELSE {}
\* the invocations once the open request of call c of the i-th is served:
\* the open requests made before it have been served
Opened(i, c) ==
    [j \in DOMAIN procs |->
        IF j < i THEN [procs[j] EXCEPT !.opened = @ \cup Unopened(procs[j])]
        ELSE IF j > i THEN procs[j]
        ELSE IF procs[j].pc = "load" /\ c # FirstRead(procs[j].h)
        THEN [procs[j] EXCEPT !.opened = (@ \cup Unopened(procs[j])) \ {c}]
        ELSE [procs[j] EXCEPT !.opened = @ \ {c}]]
\* the open request of call c of the i-th invocation can be the next that
\* IndexedDB answers: it is not served yet, and a clearAllData called before
\* it has run up to its promise, which it does as its open request is served
OpenNext(i, c) ==
    /\ c \in Unopened(procs[i])
    /\ \A j \in 1..(i - 1) : ~(procs[j].h = "handleClearData" /\ procs[j].pc = "svc")
\* call c of the i-th invocation can take its step under fault f: a failure
\* of openDB or of db.transaction comes when its open request is served, a
\* transaction runs when it is ready
Served(i, c, f, stores, write) == IF Creates(f) THEN Ready(i, stores, write) ELSE OpenNext(i, c)

\* no askAssistant call has returned yet
NoSaid == [out |-> "none", message |-> "", cause |-> "none", detail |-> "", value |-> "",
           requested |-> FALSE]
\* the service worker's handlers have taken no step yet
NoSwEv == [op |-> "none", request |-> [method |-> "GET", url |-> ""],
           response |-> [type |-> "error", status |-> 0, body |-> ""],
           hit |-> FALSE, preNames |-> <<>>, preCached |-> {}, preNetwork |-> 0]

\* no service worker: state its lifecycle state, keys what caches.keys()
\* resolved to in its activate handler, deleting the caches.delete calls of
\* that handler still running, had the entries of the caches at that time
NoWorker == [state |-> "none", keys |-> <<>>, deleting |-> {}, had |-> {}]

\* the assistant is not configured and has not been asked
AssistantIdle == apiKey = "" /\ asks = EmptyBag /\ requests = 0 /\ said = NoSaid
\* no second tab is open
TabIdle == tabPets = {} /\ tabTasks = {}
\* no service worker is registered and the origin has no cache
WorkerIdle ==
    /\ worker = NoWorker /\ cacheNames = <<>> /\ cached = {}
    /\ fetches = EmptyBag /\ network = 0 /\ swEv = NoSwEv

\* the page has loaded: App has stored its theme, DashboardView has mounted
\* and its effect has called loadData
Init ==
    /\ pets = {}
    /\ tasks = {}
    /\ ls = [theme |-> "light", notifications |-> NoItem]
    /\ now = ClockStart
    /\ procs = <<Proc("DashboardView", NoId, NoRec, "load")>>
    /\ faults = 0
    /\ calls = 0
    /\ theme = "light"
    /\ notificationsEnabled = FALSE
    /\ currentView = "dashboard"
    /\ viewPets = {}
    /\ viewTasks = {}
    /\ loading = TRUE /\ FormIdle
    /\ ev = NoEv
    /\ completed = {}
    /\ TabIdle /\ AssistantIdle /\ WorkerIdle

\* ------------------------------------------------------------- the clock

Tick ==
    /\ now < ClockStart + MaxTicks
    /\ now' = now + 1
    /\ ev' = NoEv
    /\ UNCHANGED <<storeVars, prefVars, viewVars, procs, faults, calls, sideVars>>

\* ------------------------------------------------- StorageService: writes

\* how a call that resolves in request.onsuccess and rejects in
\* request.onerror settles (savePet, saveTask, deleteTask): an abort of the
\* transaction after the request succeeded comes after the promise resolved
RequestOutcome(f) == IF f \in {"open", "tx", "req"} THEN "rejected" ELSE "resolved"

\* how a call that resolves in transaction.oncomplete and rejects in
\* transaction.onerror settles (deletePet, completeTask): threw says that a
\* request handler threw, which aborts the transaction; an abort without a
\* failed request fires neither event
TransactionOutcome(f, threw) ==
    IF f \in {"open", "tx", "req"} THEN "rejected"
    ELSE IF f = "commit" \/ threw THEN "hung"
    ELSE "resolved"

\* how getPets and getTasks settle: only the await of openDB is inside the
\* try block's reach; the promise of the transaction is returned un-awaited
ReadOutcome(f) == IF f \in {"tx", "req"} THEN "rejected" ELSE "resolved"
\* what getPets and getTasks resolve to on the store's records
ReadResult(f, store) == IF f = "open" THEN {} ELSE getAll(store)

\* the invocations after the StorageService call of the i-th settled with
\* out: every handler goes on to loadData once its call resolved, whose reads
\* are called after every call made until then, and a rejection ends it; the
\* argument is not used again
Settle(i, out) ==
    LET s == Opened(i, "svc") IN
    IF out = "resolved"
    THEN Append(Remove(s, i),
                [Proc(procs[i].h, NoId, NoRec, "load") EXCEPT !.owner = procs[i].owner])
    ELSE IF out = "hung"
    THEN [s EXCEPT ![i] = [Proc(procs[i].h, NoId, NoRec, "hung")
                           EXCEPT !.owner = procs[i].owner]]
    ELSE Remove(s, i)

savePet(i, f) ==
    /\ i \in Waiting("svc") /\ procs[i].h = "handleAddPet"
    /\ MayFault(f) /\ Served(i, "svc", f, {"pets"}, TRUE)
    /\ pets' = IF f = "none" THEN put(pets, procs[i].rec) ELSE pets
    /\ ev' = Ev("savePet", procs[i].rec.id, procs[i].rec, RequestOutcome(f), f, {})
    /\ procs' = Settle(i, RequestOutcome(f))
    /\ faults' = Count(f)
    /\ UNCHANGED <<tasks, completed, now, prefVars, viewVars, calls, sideVars>>

saveTask(i, f) ==
    /\ i \in Waiting("svc") /\ procs[i].h = "handleAddTask"
    /\ MayFault(f) /\ Served(i, "svc", f, {"tasks"}, TRUE)
    /\ tasks' = IF f = "none" THEN put(tasks, procs[i].rec) ELSE tasks
    /\ completed' = IF f = "none" THEN completed \ {procs[i].rec.id} ELSE completed
    /\ ev' = Ev("saveTask", procs[i].rec.id, procs[i].rec, RequestOutcome(f), f, {})
    /\ procs' = Settle(i, RequestOutcome(f))
    /\ faults' = Count(f)
    /\ UNCHANGED <<pets, now, prefVars, viewVars, calls, sideVars>>

deleteTask(i, f) ==
    /\ i \in Waiting("svc") /\ procs[i].h = "handleDeleteTask"
    /\ MayFault(f) /\ Served(i, "svc", f, {"tasks"}, TRUE)
    /\ tasks' = IF f = "none" THEN delete(tasks, procs[i].id) ELSE tasks
    /\ completed' = completed \cap Ids(tasks')
    /\ ev' = Ev("deleteTask", procs[i].id, NoRec, RequestOutcome(f), f, {})
    /\ procs' = Settle(i, RequestOutcome(f))
    /\ faults' = Count(f)
    /\ UNCHANGED <<pets, now, prefVars, viewVars, calls, sideVars>>

\* deletePet with one transaction per store: the pet's delete has committed
\* when a request of the cursor fails
deletePetTwoTx(i, f) ==
    /\ i \in Waiting("svc") /\ procs[i].h = "handleDeletePet"
    /\ MayFault(f) /\ Served(i, "svc", f, {"pets", "tasks"}, TRUE)
    /\ LET after == DeletePetTx(pets, tasks, procs[i].id) IN
         /\ pets' = IF f \in {"none", "req"} THEN after.pets ELSE pets
         /\ tasks' = IF f = "none" THEN after.tasks ELSE tasks
    /\ completed' = completed \cap Ids(tasks')
    /\ ev' = Ev("deletePet", procs[i].id, NoRec, TransactionOutcome(f, FALSE), f, {})
    /\ procs' = Settle(i, TransactionOutcome(f, FALSE))
    /\ faults' = Count(f)
    /\ UNCHANGED <<now, prefVars, viewVars, calls, sideVars>>

deletePet(i, f) ==
    /\ i \in Waiting("svc") /\ procs[i].h = "handleDeletePet"
    /\ MayFault(f) /\ Served(i, "svc", f, {"pets", "tasks"}, TRUE)
    /\ LET after == DeletePetTx(pets, tasks, procs[i].id) IN
         /\ pets' = IF f = "none" THEN after.pets ELSE pets
         /\ tasks' = IF f = "none" THEN after.tasks ELSE tasks
    /\ completed' = completed \cap Ids(tasks')
    /\ ev' = Ev("deletePet", procs[i].id, NoRec, TransactionOutcome(f, FALSE), f, {})
    /\ procs' = Settle(i, TransactionOutcome(f, FALSE))
    /\ faults' = Count(f)
    /\ UNCHANGED <<now, prefVars, viewVars, calls, sideVars>>

\* completeTask up to the end of getRequest.onsuccess: openDB, the
\* transaction, the get request and its handler, which reads the clock; the
\* promise rejects on a fault, never settles when the handler throws, and
\* else waits for the transaction to end
completeTask(i, f) ==
    /\ i \in Waiting("svc") /\ procs[i].h = "handleComplete"
    /\ MayFault(f) /\ f \in {"none", "open", "tx", "req"}
    /\ Served(i, "svc", f, {"tasks"}, TRUE)
    /\ LET threw == f = "none" /\ CompleteTaskTx(tasks, procs[i].id, now).threw IN
       IF f = "none" /\ ~threw
       THEN /\ procs' = [Opened(i, "svc") EXCEPT ![i].pc = "commit", ![i].rec = [at |-> now]]
            /\ ev' = NoEv
       ELSE /\ procs' = Settle(i, TransactionOutcome(f, threw))
            /\ ev' = Ev("completeTask", procs[i].id, NoRec, TransactionOutcome(f, threw), f, {})
    /\ faults' = Count(f)
    /\ UNCHANGED <<storeVars, now, prefVars, viewVars, calls, sideVars>>

\* the transaction of completeTask ends: it commits what the handler of the
\* get request put, at the clock reading rec.at of that handler, and
\* transaction.oncomplete resolves the promise; when the put request that
\* the handler made for a task it found fails, its error event reaches
\* transaction.onerror, which rejects the promise, and the transaction
\* aborts; an abort at commit stores nothing and settles nothing
completeTaskCommit(i, f) ==
    /\ i \in Waiting("commit") /\ procs[i].h = "handleComplete"
    /\ MayFault(f) /\ f \in {"none", "req", "commit"}
    /\ f = "req" => procs[i].id \in Ids(tasks)
    /\ LET after == CompleteTaskTx(tasks, procs[i].id, procs[i].rec.at) IN
         /\ tasks' = IF f = "none" THEN after.tasks ELSE tasks
         /\ completed' = IF f = "none" /\ procs[i].id \in Ids(tasks)
                         THEN completed \cup {procs[i].id}
                         ELSE completed
    /\ ev' = Ev("completeTask", procs[i].id, procs[i].rec, TransactionOutcome(f, FALSE), f, {})
    /\ procs' = Settle(i, TransactionOutcome(f, FALSE))
    /\ faults' = Count(f)
    /\ UNCHANGED <<pets, now, prefVars, viewVars, calls, sideVars>>

\* clearAllData up to its promise, when its open request is served: openDB,
\* the transaction with its two clear requests, the two removeItem calls
clearAllDataStart(i, f) ==
    /\ i \in Waiting("svc") /\ procs[i].h = "handleClearData"
    /\ MayFault(f) /\ f \in {"none", "open", "tx"}
    /\ OpenNext(i, "svc")
    /\ IF f = "none"
       THEN /\ ls' = removePreferences(ls)
            /\ procs' = [Opened(i, "svc") EXCEPT ![i].pc = "tx"]
            /\ ev' = NoEv
       ELSE /\ ls' = ls
            /\ procs' = Remove(Opened(i, "svc"), i)
            /\ ev' = Ev("clearAllData", NoId, NoRec, "rejected", f, {})
    /\ faults' = Count(f)
    /\ UNCHANGED <<storeVars, now, theme, notificationsEnabled, viewVars, calls, sideVars>>

\* the transaction of clearAllData ends: t.oncomplete resolves the promise;
\* nothing listens for its error or abort
clearAllDataEnd(i, f) ==
    /\ i \in Waiting("tx") /\ procs[i].h = "handleClearData"
    /\ MayFault(f) /\ f \in {"none", "req", "commit"}
    /\ Ready(i, {"pets", "tasks"}, TRUE)
    /\ pets' = IF f = "none" THEN clear(pets) ELSE pets
    /\ tasks' = IF f = "none" THEN clear(tasks) ELSE tasks
    /\ completed' = completed \cap Ids(tasks')
    /\ ev' = Ev("clearAllData", NoId, NoRec, IF f = "none" THEN "resolved" ELSE "hung", f, {})
    /\ procs' = [procs EXCEPT ![i].pc = IF f = "none" THEN "reload" ELSE "hung"]
    /\ faults' = Count(f)
    /\ UNCHANGED <<now, prefVars, viewVars, calls, sideVars>>

\* ---------------------------------------------- loadData and its two reads

\* the invocations after a read of the i-th's loadData rejected: Promise.all
\* has rejected and loadData has thrown; the other read, when it is still to
\* come (rest), settles for nobody in the page that called it
Rejected(s, i, rest) ==
    IF rest = {} THEN Remove(s, i)
    ELSE [s EXCEPT ![i] = [s[i] EXCEPT !.gotTasks = "tasks" \notin rest,
                                       !.gotPets = "pets" \notin rest,
                                       !.first = {},
                                       !.owner = IF @ \in {"tab", "tab none"} THEN "tab none"
                                                 ELSE "none"]]

\* loadData of invocation p resolved with its reads: setPets, setTasks and
\* setLoading(false), and then what the handler does after its await of
\* loadData: handleAddPet closes the add-pet form and empties its fields,
\* handleAddTask closes the add-task form
SetLists(p, ps, ts) ==
    /\ viewPets' = IF p.owner = "view" THEN ps ELSE viewPets
    /\ viewTasks' = IF p.owner = "view" THEN ts ELSE viewTasks
    /\ tabPets' = IF p.owner = "tab" THEN ps ELSE tabPets
    /\ tabTasks' = IF p.owner = "tab" THEN ts ELSE tabTasks
    /\ loading' = IF p.owner = "view" THEN FALSE ELSE loading
    /\ showAddPet' = IF p.owner = "view" /\ p.h = "handleAddPet" THEN FALSE ELSE showAddPet
    /\ newPetImage' = IF p.owner = "view" /\ p.h = "handleAddPet" THEN NULL ELSE newPetImage
    /\ showAddTask' = IF p.owner = "view" /\ p.h = "handleAddTask" THEN NoId ELSE showAddTask

\* Promise.all of loadData resolves with its second read, and loadData sets
\* both lists to what the two reads resolved to; until then the first result
\* waits in the invocation
getTasks(i, f) ==
    /\ i \in Waiting("load") /\ ~procs[i].gotTasks
    /\ MayFault(f) /\ f \in {"none", "open", "tx", "req"}
    /\ Served(i, "tasks", f, {"tasks"}, FALSE)
    /\ ev' = Ev("getTasks", NoId, NoRec, ReadOutcome(f), f, ReadResult(f, tasks))
    /\ LET s == Opened(i, "tasks") IN
       IF ReadOutcome(f) = "rejected"
       THEN procs' = Rejected(s, i, Pending(procs[i]) \ {"tasks"}) /\ UNCHANGED <<listVars, formVars>>
       ELSE IF procs[i].gotPets
       THEN /\ procs' = Remove(s, i)
            /\ SetLists(procs[i], procs[i].first, ReadResult(f, tasks))
       ELSE /\ procs' = [s EXCEPT ![i] = [s[i] EXCEPT !.gotTasks = TRUE,
                                                      !.first = ReadResult(f, tasks)]]
            /\ UNCHANGED <<listVars, formVars>>
    /\ faults' = Count(f)
    /\ UNCHANGED <<storeVars, now, prefVars, currentView, calls, sideVars>>

getPets(i, f) ==
    /\ i \in Waiting("load") /\ ~procs[i].gotPets
    /\ MayFault(f) /\ f \in {"none", "open", "tx", "req"}
    /\ Served(i, "pets", f, {"pets"}, FALSE)
    /\ ev' = Ev("getPets", NoId, NoRec, ReadOutcome(f), f, ReadResult(f, pets))
    /\ LET s == Opened(i, "pets") IN
       IF ReadOutcome(f) = "rejected"
       THEN procs' = Rejected(s, i, Pending(procs[i]) \ {"pets"}) /\ UNCHANGED <<listVars, formVars>>
       ELSE IF procs[i].gotTasks
       THEN /\ procs' = Remove(s, i)
            /\ SetLists(procs[i], ReadResult(f, pets), procs[i].first)
       ELSE /\ procs' = [s EXCEPT ![i] = [s[i] EXCEPT !.gotPets = TRUE,
                                                      !.first = ReadResult(f, pets)]]
            /\ UNCHANGED <<listVars, formVars>>
    /\ faults' = Count(f)
    /\ UNCHANGED <<storeVars, now, prefVars, currentView, calls, sideVars>>

\* ------------------------------------------------------------ the handlers

ViewInputs == {"dashboard", "pets", "settings"}

\* the component that renderView renders for a view
Component(view) ==
    IF view = "dashboard" THEN "DashboardView"
    ELSE IF view = "pets" THEN "PetsView"
    ELSE "SettingsView"

\* a button of the bottom navigation: App renders the view, which mounts with
\* empty lists, loading, its forms closed, and whose effect calls loadData
\* (DashboardView, PetsView) or reads the notification setting
\* (SettingsView); the view that was shown unmounts
setCurrentView(view) ==
    /\ (view \in {"dashboard", "pets"} /\ view # currentView) => Len(procs) < MaxProcs
    /\ currentView' = view
    /\ IF view = currentView
       THEN UNCHANGED <<procs, viewPets, viewTasks, formVars, notificationsEnabled>>
       ELSE /\ procs' = IF view = "settings" THEN Detach(procs)
                        ELSE Append(Detach(procs), Proc(Component(view), NoId, NoRec, "load"))
            /\ viewPets' = {}
            /\ viewTasks' = {}
            /\ loading' = TRUE
            /\ showAddPet' = FALSE
            /\ showAddTask' = NoId
            /\ newPetImage' = NULL
            /\ notificationsEnabled' = (view = "settings" /\ getNotificationSettings(ls))
    /\ ev' = NoEv
    /\ UNCHANGED <<storeVars, now, ls, theme, faults, calls, tabVars, sideVars>>

\* a click that starts the invocation p
Start(p) ==
    /\ CanStart
    /\ procs' = Append(procs, p)
    /\ calls' = calls + 1
    /\ ev' = NoEv
    /\ UNCHANGED <<storeVars, now, prefVars, faults, viewVars, sideVars>>

\* the button of a task in the list that DashboardView renders once its
\* first loadData resolved
handleComplete(taskId) ==
    /\ currentView = "dashboard" /\ ~loading
    /\ taskId \in listedTasks
    /\ Start(Proc("handleComplete", taskId, NoRec, "svc"))

\* the add-pet button of the list (show) and the Cancel button of the form
setShowAddPet(show) ==
    /\ PetsView = (IF show THEN "list" ELSE "addPet")
    /\ showAddPet' = show
    /\ ev' = NoEv
    /\ UNCHANGED <<storeVars, now, prefVars, procs, faults, calls, currentView, listVars,
                   loading, showAddTask, newPetImage, sideVars>>

\* the add-task button in the card of pet id, and with NoId (null) the Cancel
\* button of the form
setShowAddTask(id) ==
    /\ IF id = NoId THEN PetsView = "addTask" ELSE PetsView = "list" /\ id \in listedPets
    /\ showAddTask' = id
    /\ ev' = NoEv
    /\ UNCHANGED <<storeVars, now, prefVars, procs, faults, calls, currentView, listVars,
                   loading, showAddPet, newPetImage, sideVars>>

\* the file input of the add-pet form: the user chooses file, and
\* compressImage starts on it
handleImageUpload(file) ==
    /\ PetsView = "addPet"
    /\ Start(Proc("handleImageUpload", NoId, [file |-> file], "compress"))

CompressInputs == {"resolved", "rejected", "hung"}

\* the promise of compressImage of the i-th invocation settles with out:
\* img.onload resolves it with the data URL and handleImageUpload sets
\* newPetImage, img.onerror rejects it and handleImageUpload alerts; a file
\* the reader cannot read settles nothing
compressImage(i, out) ==
    /\ i \in Waiting("compress")
    /\ newPetImage' = IF out = "resolved" /\ procs[i].owner = "view"
                      THEN toDataURL(procs[i].rec.file)
                      ELSE newPetImage
    /\ procs' = IF out = "hung" THEN [procs EXCEPT ![i].pc = "hung"] ELSE Remove(procs, i)
    /\ ev' = NoEv
    /\ UNCHANGED <<storeVars, now, prefVars, faults, calls, currentView, listVars,
                   loading, showAddPet, showAddTask, sideVars>>

\* the Save button of the add-pet form, with name and breed in its fields
handleAddPet(name, breed) ==
    /\ PetsView = "addPet"
    /\ name # ""
    /\ Start(Proc("handleAddPet", now, NewPet(now, name, breed, newPetImage), "svc"))

\* the Save button of the add-task form, which the add-task button of the
\* pet showAddTask opened, with title, type and freq in its fields
handleAddTask(title, type, freq) ==
    /\ PetsView = "addTask"
    /\ title # ""
    /\ Start(Proc("handleAddTask", now, NewTask(now, showAddTask, title, type, freq), "svc"))

handleDeletePet(id) ==
    /\ PetsView = "list"
    /\ id \in listedPets
    /\ Start(Proc("handleDeletePet", id, NoRec, "svc"))

handleDeleteTask(taskId) ==
    /\ PetsView = "list"
    /\ \E pet \in viewPets : taskId \in Ids(petTasks(viewTasks, pet))
    /\ Start(Proc("handleDeleteTask", taskId, NoRec, "svc"))

handleClearData ==
    /\ currentView = "settings"
    /\ Start(Proc("handleClearData", NoId, NoRec, "svc"))

\* handleDeletePet and handleDeleteTask of PetsView in the second tab
tabDeletePet(id) ==
    /\ id \in Ids(tabPets)
    /\ Start([Proc("handleDeletePet", id, NoRec, "svc") EXCEPT !.owner = "tab"])

tabDeleteTask(taskId) ==
    /\ \E pet \in tabPets : taskId \in Ids(petTasks(tabTasks, pet))
    /\ Start([Proc("handleDeleteTask", taskId, NoRec, "svc") EXCEPT !.owner = "tab"])

\* window.location.reload() after clearAllData resolved: the page starts
\* over; App reads the theme and its effect saves it, DashboardView mounts
\* with empty lists; the invocations of its handlers are gone with the
\* page, those of the second tab go on
reload(i) ==
    /\ i \in Waiting("reload")
    /\ procs' = Append(SelectSeq(procs, LAMBDA q : q.owner \in {"tab", "tab none"}),
                       Proc("DashboardView", NoId, NoRec, "load"))
    /\ loading' = TRUE
    /\ showAddPet' = FALSE
    /\ showAddTask' = NoId
    /\ newPetImage' = NULL
    /\ theme' = getTheme(ls)
    /\ ls' = saveTheme(ls, getTheme(ls))
    /\ notificationsEnabled' = FALSE
    /\ currentView' = "dashboard"
    /\ viewPets' = {}
    /\ viewTasks' = {}
    /\ ev' = NoEv
    /\ UNCHANGED <<storeVars, now, faults, calls, tabVars, sideVars>>

toggleTheme ==
    /\ currentView = "settings"
    /\ theme' = IF theme = "light" THEN "dark" ELSE "light"
    /\ ls' = saveTheme(ls, theme')
    /\ ev' = NoEv
    /\ UNCHANGED <<storeVars, now, notificationsEnabled, procs, faults, viewVars, calls, sideVars>>

\* the switch of SettingsView; supported: the browser has the Notification
\* API.  Turning the notifications on asks for the permission and returns
\* with nothing written
toggleNotifications(supported) ==
    /\ currentView = "settings"
    /\ notificationsEnabled \/ ~supported \/ Len(procs) < MaxProcs
    /\ IF notificationsEnabled
       THEN /\ notificationsEnabled' = FALSE
            /\ ls' = saveNotificationSettings(ls, FALSE)
            /\ procs' = procs
       ELSE /\ UNCHANGED <<notificationsEnabled, ls>>
            /\ procs' = IF supported
                        THEN Append(procs, Proc("toggleNotifications", NoId, NoRec, "permission"))
                        ELSE procs
    /\ ev' = NoEv
    /\ UNCHANGED <<storeVars, now, theme, faults, viewVars, calls, sideVars>>

PermissionInputs == {"granted", "denied", "default"}

\* the user answers the permission prompt of the i-th invocation: the
\* callback of requestPermission().then runs
requestPermission(i, permission) ==
    /\ i \in Waiting("permission")
    /\ notificationsEnabled' = IF procs[i].owner = "view" THEN permission = "granted"
                               ELSE notificationsEnabled
    /\ ls' = saveNotificationSettings(ls, permission = "granted")
    /\ procs' = Remove(procs, i)
    /\ ev' = NoEv
    /\ UNCHANGED <<storeVars, now, theme, faults, viewVars, calls, sideVars>>

\* DashboardView, its first loadData resolved, renders its tasks state at
\* clock reading now under filter f
DashboardView(f) ==
    /\ currentView = "dashboard" /\ ~loading
    /\ ev' = Ev("filteredTasks", NoId, [filter |-> f], "none", "none",
               filteredTasks(viewTasks, f, now))
    /\ UNCHANGED <<storeVars, now, prefVars, viewVars, procs, faults, calls, sideVars>>

\* ------------------------------------------------------- the specification

Service ==
    \/ \E i \in DOMAIN procs, f \in FaultKinds : savePet(i, f)
    \/ \E i \in DOMAIN procs, f \in FaultKinds : saveTask(i, f)
    \/ \E i \in DOMAIN procs, f \in FaultKinds : deleteTask(i, f)
    \/ \E i \in DOMAIN procs, f \in FaultKinds : deletePet(i, f)
    \/ \E i \in DOMAIN procs, f \in FaultKinds : completeTask(i, f)
    \/ \E i \in DOMAIN procs, f \in FaultKinds : completeTaskCommit(i, f)
    \/ \E i \in DOMAIN procs, f \in FaultKinds : getTasks(i, f)
    \/ \E i \in DOMAIN procs, f \in FaultKinds : getPets(i, f)

\* the buttons of the two forms of PetsView
Forms ==
    \/ \E show \in BOOLEAN : setShowAddPet(show)
    \/ \E id \in listedPets \cup {NoId} : setShowAddTask(id)

\* the picture of the add-pet form
Picture ==
    \/ \E file \in FileInputs : handleImageUpload(file)
    \/ \E i \in DOMAIN procs, out \in CompressInputs : compressImage(i, out)

\* the buttons that call StorageService; a pet is saved with its name, the
\* breed field left empty
Handlers ==
    \/ \E id \in listedTasks : handleComplete(id)
    \/ \E name \in PetNameInputs : handleAddPet(name, "")
    \/ \E title \in TaskTitleInputs, type \in TaskTypeInputs, freq \in FreqInputs :
          handleAddTask(title, type, freq)
    \/ \E id \in listedPets : handleDeletePet(id)
    \/ \E id \in listedTasks : handleDeleteTask(id)

\* the two views with lists
Navigation == \E view \in {"dashboard", "pets"} : setCurrentView(view)

Settings ==
    \/ \E view \in ViewInputs : setCurrentView(view)
    \/ handleClearData
    \/ toggleTheme
    \/ \E supported \in BOOLEAN : toggleNotifications(supported)
    \/ \E i \in DOMAIN procs, permission \in PermissionInputs : requestPermission(i, permission)
    \/ \E i \in DOMAIN procs, f \in FaultKinds : clearAllDataStart(i, f)
    \/ \E i \in DOMAIN procs, f \in FaultKinds : clearAllDataEnd(i, f)
    \/ \E i \in DOMAIN procs : reload(i)

Next == Tick \/ Navigation \/ Forms \/ Handlers \/ Service

Spec == Init /\ [][Next]_vars

\* ------------------------------------------- the reset and the preferences

\* the store is filled through the two forms, with a working frequency and
\* the breed field left empty
Populate ==
    \/ Forms
    \/ \E name \in PetNameInputs : handleAddPet(name, "")
    \/ \E title \in TaskTitleInputs, type \in TaskTypeInputs : handleAddTask(title, type, Num(30))

ServiceReset ==
    \/ \E i \in DOMAIN procs, f \in FaultKinds : savePet(i, f)
    \/ \E i \in DOMAIN procs, f \in FaultKinds : saveTask(i, f)
    \/ \E i \in DOMAIN procs, f \in FaultKinds : getTasks(i, f)
    \/ \E i \in DOMAIN procs, f \in FaultKinds : getPets(i, f)

NextReset == Populate \/ ServiceReset \/ Settings

SpecReset == Init /\ [][NextReset]_vars

\* ------------------------------------------------- the scheduler's calendar

\* the days on which a run of SpecDate starts: the last day of January and
\* of December of EpochYear, and February 28th of the next year
DateStarts == {30, 364, 423}
\* the frequency of the task of SpecDate
DateFreqInputs == {Num(1), Num(30), Num(365)}

\* DashboardView shows one pet and its one task, both added at the first
\* clock reading of a start day (two handler invocations)
InitDate ==
    /\ \E d \in DateStarts : now = d * TicksPerDay
    /\ pets = {NewPet(now, "Rex", "", NULL)}
    /\ \E freq \in DateFreqInputs : tasks = {NewTask(now, now, "walk", "pill", freq)}
    /\ ls = [theme |-> "light", notifications |-> NoItem]
    /\ procs = <<>>
    /\ faults = 0
    /\ calls = 2
    /\ theme = "light"
    /\ notificationsEnabled = FALSE
    /\ currentView = "dashboard"
    /\ viewPets = getAll(pets)
    /\ viewTasks = getAll(tasks)
    /\ loading = FALSE /\ FormIdle
    /\ ev = NoEv
    /\ completed = {}
    /\ TabIdle /\ AssistantIdle /\ WorkerIdle

\* the clock advances for MaxDays days from the start day
TickDate ==
    /\ \E d \in DateStarts : now >= d * TicksPerDay /\ now < (d + MaxDays) * TicksPerDay
    /\ now' = now + 1
    /\ ev' = NoEv
    /\ UNCHANGED <<storeVars, prefVars, viewVars, procs, faults, calls, sideVars>>

ServiceDate ==
    \/ \E i \in DOMAIN procs : completeTask(i, "none")
    \/ \E i \in DOMAIN procs : completeTaskCommit(i, "none")
    \/ \E i \in DOMAIN procs : getTasks(i, "none")
    \/ \E i \in DOMAIN procs : getPets(i, "none")

NextDate ==
    \/ TickDate
    \/ \E id \in listedTasks : handleComplete(id)
    \/ ServiceDate
    \/ \E f \in FilterInputs : DashboardView(f)

SpecDate == InitDate /\ [][NextDate]_vars

\* ------------------------------------------------------------ the assistant

\* askAssistant calls that may await generateContent together
MaxAsks == 2
\* generateContent requests of a run
MaxRequests == 3

\* response.text of a response without text
Undefined == "undefined"
\* the three fixed sentences of askAssistant (in Russian in the source)
NoKeyReply == "Please configure the API Key for the assistant."
EmptyReply == "Sorry, I could not think of an answer."
ErrorReply == "An error occurred contacting the AI server. Try again later."

ApiKeyInputs == {"", "key"}
MessageInputs == {"dose", "claws"}
\* what response.text can be
ResponseTexts == {Undefined, "", "Twice a day."}
\* the errors generateContent can throw
ErrorInputs == {"fetch failed", "429 quota exceeded"}

\* text || fallback
TextOr(text, fallback) == IF text = Undefined \/ text = "" THEN fallback ELSE text

\* how askAssistant ends when generateContent resolved with response.text = text
Returned(text) == [out |-> "resolved", value |-> TextOr(text, EmptyReply)]

\* askAssistant with a catch block that throws the error on
CaughtRethrown(error) == [out |-> "rejected", value |-> error]
\* how askAssistant ends when generateContent threw error: the catch block
Caught(error) == [out |-> "resolved", value |-> ErrorReply]

\* a call that awaits generateContent; silent: the service never answers it
Ask(message, silent) == [message |-> message, silent |-> silent]

\* the call askAssistant(message) ended as end because of cause (detail: the
\* response text or the error); requested: it had issued a request
Said(message, cause, detail, end, requested) ==
    [out |-> end.out, message |-> message, cause |-> cause, detail |-> detail,
     value |-> end.value, requested |-> requested]

\* askAssistant(message) up to its await: without a key it returns at once
askAssistant(message, silent) ==
    /\ IF apiKey = ""
       THEN /\ said' = Said(message, "nokey", "", [out |-> "resolved", value |-> NoKeyReply],
                            FALSE)
            /\ UNCHANGED <<asks, requests>>
       ELSE /\ BagCardinality(asks) < MaxAsks /\ requests < MaxRequests
            /\ asks' = asks (+) SetToBag({Ask(message, silent)})
            /\ requests' = requests + 1
            /\ said' = NoSaid
    /\ UNCHANGED <<apiKey, appVars, workerVars>>

\* generateContent resolves and askAssistant returns
generateContentResolves(a, text) ==
    /\ a \in BagToSet(asks) /\ ~a.silent
    /\ asks' = asks (-) SetToBag({a})
    /\ said' = Said(a.message, "text", text, Returned(text), TRUE)
    /\ UNCHANGED <<apiKey, requests, appVars, workerVars>>

\* generateContent throws and askAssistant returns from its catch block
generateContentThrows(a, error) ==
    /\ a \in BagToSet(asks) /\ ~a.silent
    /\ asks' = asks (-) SetToBag({a})
    /\ said' = Said(a.message, "threw", error, Caught(error), TRUE)
    /\ UNCHANGED <<apiKey, requests, appVars, workerVars>>

\* the page has loaded, the first loadData of DashboardView has resolved on
\* the empty store and no store operation is in flight
AppIdle ==
    /\ pets = {} /\ tasks = {} /\ completed = {}
    /\ ls = [theme |-> "light", notifications |-> NoItem]
    /\ now = ClockStart
    /\ procs = <<>> /\ faults = 0 /\ calls = 0
    /\ theme = "light" /\ notificationsEnabled = FALSE
    /\ currentView = "dashboard" /\ viewPets = {} /\ viewTasks = {} /\ TabIdle
    /\ loading = FALSE /\ FormIdle
    /\ ev = NoEv

\* the module is loaded with or without process.env.API_KEY
InitAssistant ==
    /\ AppIdle /\ WorkerIdle
    /\ apiKey \in ApiKeyInputs
    /\ asks = EmptyBag /\ requests = 0 /\ said = NoSaid

Answers ==
    \/ \E a \in BagToSet(asks), text \in ResponseTexts : generateContentResolves(a, text)
    \/ \E a \in BagToSet(asks), error \in ErrorInputs : generateContentThrows(a, error)

NextAssistant ==
    \/ \E message \in MessageInputs, silent \in BOOLEAN : askAssistant(message, silent)
    \/ Answers

SpecAssistant == InitAssistant /\ [][NextAssistant]_vars

\* the event loop runs the continuation of every call the service answers
SpecAssistantFair == SpecAssistant /\ WF_vars(Answers)

\* -------------------------------------------------------- the service worker

\* fetch events the worker may be answering together
MaxFetches == 2
\* network requests of the fetch handler in a run
MaxNetwork == 2

CACHE_NAME == "dlive-cache-v2"
\* two of the seven entries of the source's list
ASSETS_TO_CACHE == {"./index.html", "https://cdn.tailwindcss.com"}

\* the caches the origin may hold when the worker is installed: those of an
\* earlier generation and of this one
CacheNameInputs == {"dlive-cache-v1", "dlive-static", CACHE_NAME}
RequestInputs == [method : {"GET", "POST"}, url : {"./index.html", "/api/tips"}]
\* what fetch can resolve to
ResponseInputs ==
    {[type |-> "basic", status |-> 200, body |-> "net"],
     [type |-> "cors", status |-> 200, body |-> "net"],
     [type |-> "basic", status |-> 404, body |-> "net"],
     [type |-> "opaque", status |-> 0, body |-> "net"]}
\* respondWith(undefined), and the response of an event that has none yet
NoResponse == [type |-> "error", status |-> 0, body |-> ""]

Range(seq) == {seq[i] : i \in 1..Len(seq)}

\* caches.open(name) on the list of caches: creates the cache if it is absent
open(names, name) == IF name \in Range(names) THEN names ELSE Append(names, name)
\* caches.delete(name) on the list of caches and on the entries
deleteName(names, name) == SelectSeq(names, LAMBDA n : n # name)
deleteEntries(entries, name) == {e \in entries : e.cacheName # name}
\* cache.put(request, response) on the cache name: one entry per URL
cachePut(entries, name, url, response) ==
    {e \in entries : ~(e.cacheName = name /\ e.url = url)}
        \cup {[url |-> url, response |-> response, cacheName |-> name]}

\* caches.match(request): the entry of the first cache, in creation order,
\* that holds the URL; a request that is not a GET matches nothing
match(names, entries, request) ==
    LET holders == {i \in 1..Len(names) :
                       \E e \in entries : e.cacheName = names[i] /\ e.url = request.url}
    IN  IF request.method # "GET" \/ holders = {}
        THEN [response |-> NoResponse, hit |-> FALSE]
        ELSE LET i == CHOOSE j \in holders : \A k \in holders : j <= k
                 e == CHOOSE x \in entries : x.cacheName = names[i] /\ x.url = request.url
             IN  [response |-> e.response, hit |-> TRUE]

\* a fetch handler that caches whatever fetch resolved to
IsValidAlways(response) == TRUE
\* the response passes the check of the fetch handler
IsValid(response) ==
    ~(response.status # 200 \/ (response.type # "basic" /\ response.type # "cors"))

\* an activate handler that deletes every cache
ToDeleteAll(names) == Range(names)
\* the caches the activate handler deletes
ToDelete(names) == {cacheName \in Range(names) : cacheName # CACHE_NAME}

\* a fetch event the worker is answering: pc "match" (awaits caches.match),
\* "fetch" (awaits fetch), "put" (has answered, awaits caches.open)
FetchEvent(pc, request, response) == [pc |-> pc, request |-> request, response |-> response]

\* the handlers took the step op for request, with response and hit, from the
\* caches and the count of network requests as they are
SwEv(op, request, response, hit) ==
    [op |-> op, request |-> request, response |-> response, hit |-> hit,
     preNames |-> cacheNames, preCached |-> cached, preNetwork |-> network]

\* the install handler: caches.open(CACHE_NAME), then cache.addAll, which
\* stores all the assets or none; ok: every asset was fetched
install(ok) ==
    /\ worker.state = "parsed"
    /\ cacheNames' = open(cacheNames, CACHE_NAME)
    /\ cached' = IF ok
                 THEN {e \in cached : ~(e.cacheName = CACHE_NAME /\ e.url \in ASSETS_TO_CACHE)}
                      \cup {[url |-> url,
                             response |-> [type |-> "basic", status |-> 200, body |-> "shell"],
                             cacheName |-> CACHE_NAME] :
                            url \in ASSETS_TO_CACHE}
                 ELSE cached
    /\ worker' = [worker EXCEPT !.state = IF ok THEN "installed" ELSE "redundant"]
    /\ swEv' = SwEv("install", NoSwEv.request, NoResponse, FALSE)
    /\ UNCHANGED <<fetches, network, appVars, assistantVars>>

\* the activate handler up to its Promise.all: caches.keys() has resolved and
\* caches.delete is called for every name that is not CACHE_NAME
activate ==
    /\ worker.state = "installed"
    /\ worker' = [state |-> "activating", keys |-> cacheNames,
                  deleting |-> ToDelete(cacheNames), had |-> cached]
    /\ swEv' = SwEv("activate", NoSwEv.request, NoResponse, FALSE)
    /\ UNCHANGED <<cacheNames, cached, fetches, network, appVars, assistantVars>>

\* one caches.delete of the activate handler completes
cachesDelete(cacheName) ==
    /\ worker.state = "activating" /\ cacheName \in worker.deleting
    /\ cacheNames' = deleteName(cacheNames, cacheName)
    /\ cached' = deleteEntries(cached, cacheName)
    /\ worker' = [worker EXCEPT !.deleting = @ \ {cacheName}]
    /\ swEv' = SwEv("caches.delete", NoSwEv.request, NoResponse, FALSE)
    /\ UNCHANGED <<fetches, network, appVars, assistantVars>>

\* Promise.all of the activate handler resolves: the handler is complete
activated ==
    /\ worker.state = "activating" /\ worker.deleting = {}
    /\ worker' = [worker EXCEPT !.state = "activated"]
    /\ swEv' = SwEv("activated", NoSwEv.request, NoResponse, FALSE)
    /\ UNCHANGED <<cacheNames, cached, fetches, network, appVars, assistantVars>>

\* a fetch event arrives: respondWith(caches.match(event.request)...)
fetchEvent(request) ==
    /\ worker.state = "activated"
    /\ BagCardinality(fetches) < MaxFetches
    /\ network + BagCardinality(fetches) < MaxNetwork
    /\ fetches' = fetches (+) SetToBag({FetchEvent("match", request, NoResponse)})
    /\ swEv' = SwEv("fetchEvent", request, NoResponse, FALSE)
    /\ UNCHANGED <<worker, cacheNames, cached, network, appVars, assistantVars>>

\* caches.match resolves: on a hit the event is answered with the cached
\* response, on a miss fetch is called
cachesMatch(e) ==
    /\ e \in BagToSet(fetches) /\ e.pc = "match"
    /\ LET m == match(cacheNames, cached, e.request) IN
         /\ fetches' = IF m.hit THEN fetches (-) SetToBag({e})
                       ELSE (fetches (-) SetToBag({e}))
                                (+) SetToBag({FetchEvent("fetch", e.request, NoResponse)})
         /\ network' = IF m.hit THEN network ELSE network + 1
         /\ swEv' = SwEv("caches.match", e.request, m.response, m.hit)
    /\ UNCHANGED <<worker, cacheNames, cached, appVars, assistantVars>>

\* fetch resolves: the event is answered with the response, and a valid
\* response is cloned for the cache
fetchResolves(e, response) ==
    /\ e \in BagToSet(fetches) /\ e.pc = "fetch"
    /\ fetches' = IF IsValid(response)
                  THEN (fetches (-) SetToBag({e}))
                           (+) SetToBag({FetchEvent("put", e.request, response)})
                  ELSE fetches (-) SetToBag({e})
    /\ swEv' = SwEv("fetch", e.request, response, FALSE)
    /\ UNCHANGED <<worker, cacheNames, cached, network, appVars, assistantVars>>

\* fetch rejects: the catch handler logs and the event is answered with
\* undefined
fetchRejects(e) ==
    /\ e \in BagToSet(fetches) /\ e.pc = "fetch"
    /\ fetches' = fetches (-) SetToBag({e})
    /\ swEv' = SwEv("offline", e.request, NoResponse, FALSE)
    /\ UNCHANGED <<worker, cacheNames, cached, network, appVars, assistantVars>>

\* caches.open(CACHE_NAME) resolves and the response of a GET request is put
cacheOpenPut(e) ==
    /\ e \in BagToSet(fetches) /\ e.pc = "put"
    /\ cacheNames' = open(cacheNames, CACHE_NAME)
    /\ cached' = IF e.request.method = "GET"
                 THEN cachePut(cached, CACHE_NAME, e.request.url, e.response)
                 ELSE cached
    /\ fetches' = fetches (-) SetToBag({e})
    /\ swEv' = SwEv("cache.put", e.request, e.response, FALSE)
    /\ UNCHANGED <<worker, network, appVars, assistantVars>>

\* the script has been parsed; the origin holds up to two caches, each with
\* an earlier copy of the page
InitWorker ==
    /\ AppIdle /\ AssistantIdle
    /\ worker = [NoWorker EXCEPT !.state = "parsed"]
    /\ \E a \in CacheNameInputs, b \in CacheNameInputs :
          cacheNames \in {<<>>, <<a>>, IF a = b THEN <<a>> ELSE <<a, b>>}
    /\ cached = {[url |-> "./index.html",
                  response |-> [type |-> "basic", status |-> 200, body |-> cacheName],
                  cacheName |-> cacheName] :
                 cacheName \in Range(cacheNames)}
    /\ fetches = EmptyBag /\ network = 0 /\ swEv = NoSwEv

NextWorker ==
    \/ \E ok \in BOOLEAN : install(ok)
    \/ activate
    \/ \E cacheName \in CacheNameInputs : cachesDelete(cacheName)
    \/ activated
    \/ \E request \in RequestInputs : fetchEvent(request)
    \/ \E e \in BagToSet(fetches) : cachesMatch(e)
    \/ \E e \in BagToSet(fetches), response \in ResponseInputs : fetchResolves(e, response)
    \/ \E e \in BagToSet(fetches) : fetchRejects(e)
    \/ \E e \in BagToSet(fetches) : cacheOpenPut(e)

SpecWorker == InitWorker /\ [][NextWorker]_vars

\* ----------------------------------------------------- PetsView and its lists

\* PetsView shows the store: one pet and its two tasks, created at the two
\* clock readings before this one; no handler is running
InitView ==
    /\ now = ClockStart
    /\ pets = {NewPet(now - 2, "Rex", "", NULL)}
    /\ tasks = {NewTask(now - 2, now - 2, "walk", "pill", Num(30)),
                NewTask(now - 1, now - 2, "walk", "pill", Num(30))}
    /\ ls = [theme |-> "light", notifications |-> NoItem]
    /\ procs = <<>>
    /\ faults = 0
    /\ calls = 0
    /\ theme = "light"
    /\ notificationsEnabled = FALSE
    /\ currentView = "pets"
    /\ viewPets = getAll(pets)
    /\ viewTasks = getAll(tasks)
    /\ loading = FALSE /\ FormIdle
    /\ ev = NoEv
    /\ completed = {}
    /\ TabIdle /\ AssistantIdle /\ WorkerIdle

\* the store works: no call of StorageService meets a fault
ServiceView ==
    \/ \E i \in DOMAIN procs : savePet(i, "none")
    \/ \E i \in DOMAIN procs : saveTask(i, "none")
    \/ \E i \in DOMAIN procs : deleteTask(i, "none")
    \/ \E i \in DOMAIN procs : deletePet(i, "none")
    \/ \E i \in DOMAIN procs : getTasks(i, "none")
    \/ \E i \in DOMAIN procs : getPets(i, "none")

HandlersView ==
    \/ Forms
    \/ Picture
    \/ \E name \in PetNameInputs, breed \in BreedInputs : handleAddPet(name, breed)
    \/ \E title \in TaskTitleInputs, type \in TaskTypeInputs : handleAddTask(title, type, Num(30))
    \/ \E id \in listedPets : handleDeletePet(id)
    \/ \E id \in listedTasks : handleDeleteTask(id)

NextView == Tick \/ HandlersView \/ ServiceView

SpecView == InitView /\ [][NextView]_vars

\* ------------------------------------------- a task added to a pet in deletion

\* PetsView over the store of InitView, with the buttons that delete a pet and
\* add a task to it, on a store whose calls can meet a fault
ServiceRace ==
    \/ \E i \in DOMAIN procs, f \in FaultKinds : saveTask(i, f)
    \/ \E i \in DOMAIN procs, f \in FaultKinds : deletePet(i, f)
    \/ \E i \in DOMAIN procs, f \in FaultKinds : getTasks(i, f)
    \/ \E i \in DOMAIN procs, f \in FaultKinds : getPets(i, f)

HandlersRace ==
    \/ Forms
    \/ \E title \in TaskTitleInputs, type \in TaskTypeInputs : handleAddTask(title, type, Num(30))
    \/ \E id \in listedPets : handleDeletePet(id)

NextRace == HandlersRace \/ ServiceRace

SpecRace == InitView /\ [][NextRace]_vars

\* --------------------------------------------------- two tabs on one database

\* the app is open in two tabs: this one shows DashboardView, the second
\* PetsView, and both list the store: one pet and its two tasks, created at
\* the two clock readings before this one; no handler is running
InitTabs ==
    /\ now = ClockStart
    /\ pets = {NewPet(now - 2, "Rex", "", NULL)}
    /\ tasks = {NewTask(now - 2, now - 2, "walk", "pill", Num(30)),
                NewTask(now - 1, now - 2, "walk", "pill", Num(30))}
    /\ ls = [theme |-> "light", notifications |-> NoItem]
    /\ procs = <<>>
    /\ faults = 0
    /\ calls = 0
    /\ theme = "light"
    /\ notificationsEnabled = FALSE
    /\ currentView = "dashboard"
    /\ viewPets = getAll(pets)
    /\ viewTasks = getAll(tasks)
    /\ loading = FALSE /\ FormIdle
    /\ tabPets = getAll(pets)
    /\ tabTasks = getAll(tasks)
    /\ ev = NoEv
    /\ completed = {}
    /\ AssistantIdle /\ WorkerIdle

ServiceTabs ==
    \/ \E i \in DOMAIN procs, f \in FaultKinds : completeTask(i, f)
    \/ \E i \in DOMAIN procs, f \in FaultKinds : completeTaskCommit(i, f)
    \/ \E i \in DOMAIN procs, f \in FaultKinds : deleteTask(i, f)
    \/ \E i \in DOMAIN procs, f \in FaultKinds : deletePet(i, f)
    \/ \E i \in DOMAIN procs, f \in FaultKinds : getTasks(i, f)
    \/ \E i \in DOMAIN procs, f \in FaultKinds : getPets(i, f)

HandlersTabs ==
    \/ \E id \in listedTasks : handleComplete(id)
    \/ \E id \in Ids(tabPets) : tabDeletePet(id)
    \/ \E id \in Ids(tabTasks) : tabDeleteTask(id)

NextTabs == Tick \/ HandlersTabs \/ ServiceTabs

SpecTabs == InitTabs /\ [][NextTabs]_vars

\* ----------------------------------------------------------------- claims

\* C1: once deletePet(P) resolves, the pets store holds no record with id P
\* and the tasks store holds no task whose petId is P, however many tasks of
\* P were stored
C1_DeletePetCascade ==
    (ev.op = "deletePet" /\ ev.out = "resolved") =>
        /\ \A pet \in pets : pet.id # ev.id
        /\ \A task \in tasks : task.petId # ev.id

\* a deletePet resolved for a stored pet that had two tasks
C1_Witness ==
    /\ ev.op = "deletePet" /\ ev.out = "resolved"
    /\ ev.id \in Ids(ev.prePets)
    /\ Cardinality({task \in ev.preTasks : task.petId = ev.id}) >= 2

\* C2: once every pending operation has settled, the petId of every stored
\* task is the id of a stored pet, under every interleaving of the handlers
C2_NoOrphans ==
    procs = <<>> => \A task \in tasks : task.petId \in Ids(pets)

\* C4: without a storage fault, deletePet, deleteTask and completeTask of an
\* id that has no record resolve and leave both stores as they were
C4_IdempotentAbsence ==
    (/\ ev.fault = "none"
     /\ \/ ev.op = "deletePet" /\ ev.id \notin Ids(ev.prePets)
        \/ ev.op \in {"deleteTask", "completeTask"} /\ ev.id \notin Ids(ev.preTasks))
    => (ev.out = "resolved" /\ pets = ev.prePets /\ tasks = ev.preTasks)

\* C5: after savePet(r) or saveTask(r) resolves, the store holds exactly one
\* record with id r.id, equal to r in every field; the other records are as
\* before and the store has grown by one only if r.id was new
C5_ReplaceSemantics ==
    (ev.op \in {"savePet", "saveTask"} /\ ev.out = "resolved") =>
        LET store == IF ev.op = "savePet" THEN pets ELSE tasks
            pre == IF ev.op = "savePet" THEN ev.prePets ELSE ev.preTasks
        IN  /\ {x \in store : x.id = ev.id} = {ev.rec}
            /\ {x \in store : x.id # ev.id} = {x \in pre : x.id # ev.id}
            /\ Cardinality(store) =
                   Cardinality(pre) + (IF ev.id \in Ids(pre) THEN 0 ELSE 1)

\* C8: every stored task has a nextDueDate; its lastDoneDate is null exactly
\* when no completeTask has rewritten it since it was created, and until then
\* its nextDueDate is its creation time
C8_TaskDates ==
    \A task \in tasks :
        /\ task.nextDueDate # NULL
        /\ (task.lastDoneDate = NULL) <=> (task.id \notin completed)
        /\ task.id \notin completed => ParseISO(task.nextDueDate) = Num(task.id)

\* a stored task that a completeTask has rewritten
C8_Witness ==
    \E task \in tasks : task.id \in completed /\ task.lastDoneDate # NULL

\* C9: however deletePet ends, either it resolved and the pet and all of its
\* tasks are gone, or it did not and both stores are as they were
C9_AllOrNothing ==
    ev.op = "deletePet" =>
        \/ /\ ev.out = "resolved"
           /\ ev.id \notin Ids(pets)
           /\ \A task \in tasks : task.petId # ev.id
        \/ /\ ev.out # "resolved"
           /\ pets = ev.prePets
           /\ tasks = ev.preTasks

\* a deletePet rejected for a stored pet that has a task
C9_Witness ==
    /\ ev.op = "deletePet" /\ ev.out = "rejected"
    /\ ev.id \in Ids(pets)
    /\ \E task \in tasks : task.petId = ev.id

\* C10: getPets and getTasks never reject, and resolve to the empty list
\* under a storage fault
C10_DegradedRead ==
    ev.op \in {"getPets", "getTasks"} =>
        /\ ev.out = "resolved"
        /\ ev.fault # "none" => ev.res = {}

\* C7: when clearAllData resolves, getPets and getTasks return empty lists,
\* getTheme returns 'light' and getNotificationSettings returns false
C7_FullReset ==
    (ev.op = "clearAllData" /\ ev.out = "resolved") =>
        /\ getAll(pets) = {}
        /\ getAll(tasks) = {}
        /\ getTheme(ls) = "light"
        /\ ~getNotificationSettings(ls)

\* C3: a completeTask performed at clock reading T (the reading of its
\* handler, whenever its promise resolves afterwards) on a stored task of
\* frequency F has, once it resolves, stored the task with lastDoneDate = T
\* and nextDueDate = T + F calendar days, its other fields unchanged
C3_CompleteTaskSchedule ==
    (ev.op = "completeTask" /\ ev.out = "resolved" /\ ev.id \in Ids(ev.preTasks)) =>
        LET before == get(ev.preTasks, ev.id)
            after == get(tasks, ev.id)
            T == ev.rec.at
        IN  /\ after # NULL
            /\ ParseISO(after.lastDoneDate) = Num(T)
            /\ ParseISO(after.nextDueDate) = Num(T + before.frequencyDays.v * TicksPerDay)
            /\ Day(LocalTime(ParseISO(after.nextDueDate).v)) =
                   Day(LocalTime(T)) + before.frequencyDays.v
            /\ [after EXCEPT !.lastDoneDate = NULL, !.nextDueDate = NULL] =
                   [before EXCEPT !.lastDoneDate = NULL, !.nextDueDate = NULL]

\* the task of frequency 30 created at t0 (its id) is completed for the first
\* time five days later and is due 35 days after t0; the promise resolves
\* when the clock has gone on
C3_Witness ==
    /\ ev.op = "completeTask" /\ ev.out = "resolved" /\ ev.id \in Ids(ev.preTasks)
    /\ get(ev.preTasks, ev.id).frequencyDays = Num(30)
    /\ get(ev.preTasks, ev.id).lastDoneDate = NULL
    /\ ev.rec.at = ev.id + 5 * TicksPerDay
    /\ now > ev.rec.at
    /\ ParseISO(get(tasks, ev.id).nextDueDate) = Num(ev.id + 35 * TicksPerDay)

\* C6: under the filter 'today' the dashboard lists a task exactly when the
\* local calendar day of its nextDueDate is today or earlier
C6_TodayFilter ==
    (ev.op = "filteredTasks" /\ ev.rec.filter = "today") =>
        \A task \in viewTasks :
            task \in ev.res <=>
                Day(LocalTime(ParseISO(task.nextDueDate).v)) <= Day(LocalTime(now))

\* the dashboard lists a task that is due later today
C6_Witness ==
    /\ ev.op = "filteredTasks" /\ ev.rec.filter = "today"
    /\ \E task \in ev.res :
          /\ ParseISO(task.nextDueDate).v > now
          /\ Day(LocalTime(ParseISO(task.nextDueDate).v)) = Day(LocalTime(now))

\* C11: a savePet, saveTask, deleteTask, deletePet or completeTask whose
\* database fails to open or whose write request or transaction fails rejects
\* its promise: it neither resolves nor stays pending
C11_WriteFaultsPropagate ==
    (/\ ev.op \in {"savePet", "saveTask", "deleteTask", "deletePet", "completeTask"}
     /\ ev.fault # "none")
    => ev.out = "rejected"

\* C12: every task stored through handleAddTask has a frequencyDays that is
\* an integer of at least 1, whatever was entered in the frequency field
C12_MinimumRecurrence ==
    \A task \in tasks : ~task.frequencyDays.nan /\ task.frequencyDays.v >= 1

\* C13: the record a creation stores has an id that no stored record of its
\* collection has: the creation replaces nothing and the collection grows by
\* exactly one, also when two creations read the same clock
C13_UniqueIds ==
    (ev.op \in {"savePet", "saveTask"} /\ ev.fault = "none") =>
        LET store == IF ev.op = "savePet" THEN pets ELSE tasks
            pre == IF ev.op = "savePet" THEN ev.prePets ELSE ev.preTasks
        IN  /\ ev.id \notin Ids(pre)
            /\ Cardinality(store) = Cardinality(pre) + 1

\* C14: askAssistant never rejects; without an API key it returns the fixed
\* 'configure the API key' sentence and issues no request, when the request
\* throws it returns the fixed 'error contacting the server' sentence, when
\* the response text is empty the fixed 'could not think of an answer'
\* sentence, and otherwise the response text
C14_AssistantReplies ==
    said.cause # "none" =>
        /\ said.out = "resolved"
        /\ said.cause = "nokey" <=> apiKey = ""
        /\ said.cause = "nokey" => (said.value = NoKeyReply /\ ~said.requested)
        /\ said.cause = "threw" => (said.value = ErrorReply /\ said.value # said.detail)
        /\ (said.cause = "text" /\ said.detail \in {Undefined, ""}) => said.value = EmptyReply
        /\ (said.cause = "text" /\ said.detail \notin {Undefined, ""}) =>
               said.value = said.detail

\* a call returned the fallback for a response that has no text
C14_Witness ==
    /\ said.cause = "text" /\ said.detail = Undefined /\ said.value = EmptyReply
    /\ requests = 2

\* C15: every askAssistant call that awaits the service eventually returns a
\* string, and a call the service never answers returns the fixed 'error
\* contacting the server' sentence
C15_BoundedWait ==
    \A message \in MessageInputs, silent \in BOOLEAN :
        (Ask(message, silent) \in BagToSet(asks)) ~>
            (/\ said.message = message /\ said.out = "resolved"
             /\ silent => said.value = ErrorReply)

\* C16: a fetch event whose request matches a cache entry is answered with a
\* cached response and no network request is made; a network request is made
\* only on a miss; the fetch handler adds a response only to the cache
\* CACHE_NAME, and only a response of status 200 and type basic or cors to a
\* GET request
C16_CacheFirst ==
    LET holding == {e \in swEv.preCached :
                       e.cacheName \in Range(swEv.preNames) /\ e.url = swEv.request.url}
        matches == swEv.request.method = "GET" /\ holding # {}
        FetchOps == {"fetchEvent", "caches.match", "fetch", "offline", "cache.put"}
    IN  swEv.op \in FetchOps =>
          /\ (swEv.op = "caches.match" /\ matches) =>
                 /\ swEv.hit /\ swEv.response \in {e.response : e \in holding}
                 /\ network = swEv.preNetwork
          /\ network # swEv.preNetwork =>
                 (swEv.op = "caches.match" /\ ~matches /\ network = swEv.preNetwork + 1)
          /\ cached # swEv.preCached =>
                 /\ swEv.op = "cache.put"
                 /\ swEv.request.method = "GET"
                 /\ swEv.response.status = 200 /\ swEv.response.type \in {"basic", "cors"}
                 /\ cached \ swEv.preCached =
                        {[url |-> swEv.request.url, response |-> swEv.response,
                          cacheName |-> CACHE_NAME]}
                 /\ {e \in swEv.preCached \ cached : e.url # swEv.request.url} = {}

\* a GET request is answered from the entry that an earlier miss has cached:
\* one network request has been made for two events
C16_Witness ==
    /\ swEv.op = "caches.match" /\ swEv.hit
    /\ swEv.request = [method |-> "GET", url |-> "/api/tips"]
    /\ swEv.response.body = "net"
    /\ network = 1

\* C17: when the activate handler is complete, every cache that existed when
\* it read the names and is not CACHE_NAME is deleted, no other cache is
\* left, and the cache CACHE_NAME is there with the entries it had
C17_OldCachesDeleted ==
    swEv.op = "activated" =>
        /\ \A cacheName \in Range(worker.keys) :
               cacheName # CACHE_NAME => cacheName \notin Range(cacheNames)
        /\ Range(cacheNames) = {CACHE_NAME}
        /\ {e \in cached : e.cacheName = CACHE_NAME}
               = {e \in worker.had : e.cacheName = CACHE_NAME}
        /\ {e \in cached : e.cacheName = CACHE_NAME} # {}

\* activation is complete on an origin that held two caches of other names
C17_Witness ==
    /\ swEv.op = "activated"
    /\ Cardinality(Range(worker.keys) \ {CACHE_NAME}) = 2

\* C18: every call of StorageService settles: no handler invocation waits on
\* a promise that neither resolves nor rejects
C18_EveryCallSettles ==
    /\ ev.out # "hung"
    /\ \A i \in DOMAIN procs : procs[i].pc # "hung"

\* C19: completeTask never brings a deleted task back: it stores a record
\* only under an id that the store holds when its transaction runs, so that
\* after a committed deleteTask(t) or deletePet of t's pet no completeTask(t)
\* adds t again, and a delete that commits leaves t absent
C19_NoResurrection ==
    /\ ev.op = "completeTask" => Ids(tasks) = Ids(ev.preTasks)
    /\ (ev.op = "deleteTask" /\ ev.fault = "none") => ev.id \notin Ids(tasks)
    /\ (ev.op = "deletePet" /\ ev.fault = "none") =>
           \A task \in tasks : task.petId # ev.id

\* completeTask(t) resolved after the delete of the listed task t committed,
\* and t is not stored
C19_Witness ==
    /\ ev.op = "completeTask" /\ ev.out = "resolved"
    /\ ev.id \in listedTasks
    /\ ev.id \notin Ids(ev.preTasks)
    /\ ev.id \notin Ids(tasks)

\* C20: once every store operation and every reload of the view has settled,
\* the view's pets and tasks are the store's, whatever handlers ran and
\* however their reloads overlapped
C20_ViewConverges ==
    procs = <<>> => (viewPets = getAll(pets) /\ viewTasks = getAll(tasks))

====
